---- MODULE Spec2Model ----
(***************************************************************************)
(* The layer-graph execution engine of cuda-convnet (trunk/src/layer.cu):  *)
(* graph assembly (addPrev/addNext), the forward and backward fan-in       *)
(* protocol of Layer, and the kind-specific steps of the data, fully       *)
(* connected, convolution, softmax and logistic-regression cost layers.     *)
(*                                                                         *)
(* Matrices are abstract.  An activation buffer holds an integer that      *)
(* depends on the inputs it was computed from (0: the empty matrix); an    *)
(* activation-gradient buffer holds the bag of contributions that were     *)
(* summed into it since it was last overwritten; every buffer carries its  *)
(* orientation flag.  The calls a driver call makes are recorded, in       *)
(* order, in the history variable hist.                                    *)
(***************************************************************************)
EXTENDS Integers, Sequences, FiniteSets, Bags, TLC

VARIABLES
    layers,     \* layer id -> the fields of the Layer object
    saveActs,   \* Layer::_saveActs
    saveActGrads, \* Layer::_saveActGrads
    hist,       \* the events of the current pass (cleared when a reset sweep starts)
    pc,         \* "build" | "run" | "threw" | "aborted"
    edges,      \* number of addNext/addPrev calls made so far
    calls,      \* driver calls made so far
    extra,      \* driver calls made so far that the pass protocol does not include
    sweeps      \* reset sweeps started so far

vars == <<layers, saveActs, saveActGrads, hist, pc, edges, calls, extra, sweeps>>

(***************************************************************************)
(* Bounds of the model.                                                    *)
(***************************************************************************)
MaxEdges == 5      \* edges the driver adds
MaxCalls == 3      \* forward and backward calls of the driver
MaxExtra == 1      \* of them, calls other than forward with data on a data layer
                   \* and backward on a cost layer
MaxPass  == 2      \* reset sweeps (passes)
MaxData  == 1      \* length of the longest input list the driver supplies
MaxAsm   == 3      \* addNext/addPrev calls of a free assembly sequence

(***************************************************************************)
(* The layers of the network under assembly, in configuration order: the   *)
(* type tag ("type" of the parameter record) of each.  Kind is the tag the *)
(* layer objects hold (getType()).                                         *)
(***************************************************************************)
Net == <<"data", "conv", "softmax", "fc", "cost.logreg">>

Kind == [l \in DOMAIN layers |-> layers[l].type]

Layers == DOMAIN Kind

Coeffs == {0, 1}

\* _rcvdFInputs and _rcvdBInputs are not set by the constructor: until the
\* first reset() they hold no defined value.
Uninit == -1

\* DataLayer::_dataIdx (0-based, as in the code).
DataIdx == 0

IsCost(l) == Kind[l] = "cost.logreg"

(***************************************************************************)
(* NVMatrix, as far as the engine uses it.                                 *)
(***************************************************************************)
NVMatrix(v) == [val |-> v, trans |-> FALSE, view |-> FALSE]

transpose(m, t) == [m EXCEPT !.trans = t]

truncate(m, empty) == [m EXCEPT !.val = empty]

(***************************************************************************)
(* Constructors.                                                           *)
(***************************************************************************)
Layer(kind, gradConsumer, gradProducer, trans) ==
    [ type                 |-> kind,
      gradConsumer         |-> gradConsumer,
      gradProducer         |-> gradProducer,
      trans                |-> trans,
      numGradProducersNext |-> 0,
      prev                 |-> << >>,
      next                 |-> << >>,
      rcvdFInputs          |-> Uninit,
      rcvdBInputs          |-> Uninit,
      acts                 |-> NVMatrix(0),
      actGrads             |-> NVMatrix(EmptyBag),
      weightGradsTmp       |-> NVMatrix(0),
      denoms               |-> NVMatrix(0),
      meanDiffs            |-> NVMatrix(0),
      coeff                |-> 0,
      err                  |-> << >>,
      pool                 |-> "" ]

FCLayer == Layer("fc", TRUE, TRUE, TRUE)

SoftmaxLayer == Layer("softmax", TRUE, TRUE, TRUE)

\* DataLayer constructed as a gradient consumer.
DataLayer_Consumer == Layer("data", TRUE, FALSE, FALSE)

DataLayer == Layer("data", FALSE, FALSE, FALSE)

ConvLayer == Layer("conv", TRUE, TRUE, FALSE)

ResponseNormLayer == Layer("rnorm", TRUE, TRUE, FALSE)

ContrastNormLayer == [ResponseNormLayer EXCEPT !.type = "cnorm"]

CostLayer(kind, gradConsumer, gradProducer, trans, coeff) ==
    [Layer(kind, gradConsumer, gradProducer, trans) EXCEPT
        !.coeff = coeff, !.gradProducer = (coeff # 0)]

LogregCostLayer(coeff) == CostLayer("cost.logreg", TRUE, TRUE, FALSE, coeff)

\* A constructor or factory call returns the layer made, or throws a string.
Made(layer) == [ok |-> TRUE, layer |-> layer, error |-> ""]

Thrown(error) == [ok |-> FALSE, layer |-> << >>, error |-> error]

PoolLayer(pool) ==
    IF pool # "max" /\ pool # "avg"
    THEN Thrown("Unknown pooling type " \o pool)
    ELSE Made([Layer("pool", TRUE, TRUE, FALSE) EXCEPT !.pool = pool])

\* makeCostLayer accepting every tag of the cost family.
makeCostLayer_Family(type, coeff) ==
    IF type \in {"cost.logreg", "cost.Logreg", "cost"}
    THEN Made(LogregCostLayer(coeff))
    ELSE Thrown("Unknown cost layer type " \o type)

makeCostLayer(type, coeff) ==
    IF type = "cost.logreg"
    THEN Made(LogregCostLayer(coeff))
    ELSE Thrown("Unknown cost layer type " \o type)

\* The layer a configuration record of the given type tag makes (a pooling
\* record names its kind: "pool.max", "pool.avg").
MakeLayer(kind, coeff) ==
    CASE kind = "data"        -> DataLayer
      [] kind = "fc"          -> FCLayer
      [] kind = "softmax"     -> SoftmaxLayer
      [] kind = "conv"        -> ConvLayer
      [] kind = "rnorm"       -> ResponseNormLayer
      [] kind = "cnorm"       -> ContrastNormLayer
      [] kind = "pool.max"    -> PoolLayer("max").layer
      [] kind = "pool.avg"    -> PoolLayer("avg").layer
      [] kind = "cost.logreg" -> LogregCostLayer(coeff)

(***************************************************************************)
(* Graph assembly.  L is the layer table; a is the layer the method is     *)
(* called on, b its argument.                                              *)
(***************************************************************************)
BoolToInt(b) == IF b THEN 1 ELSE 0

isGradConsumer(L, l) == L[l].gradConsumer

isGradProducer(L, l) == L[l].gradProducer

\* addNext also entering the receiver in the other layer's predecessors.
addNext_BothLists(L, a, b) ==
    [L EXCEPT ![a].next = Append(@, b),
              ![a].numGradProducersNext = @ + BoolToInt(isGradProducer(L, b)),
              ![b].prev = Append(@, a)]

addNext(L, a, b) ==
    [L EXCEPT ![a].next = Append(@, b),
              ![a].numGradProducersNext = @ + BoolToInt(isGradProducer(L, b))]

\* addPrev also counting the receiver as a successor of its argument.
addPrev_Counting(L, a, b) ==
    [L EXCEPT ![a].prev = Append(@, b),
              ![b].numGradProducersNext = @ + BoolToInt(isGradProducer(L, a))]

addPrev(L, a, b) ==
    [L EXCEPT ![a].prev = Append(@, b)]

\* reset leaving the backward counter as it is.
reset_ForwardOnly(L, l) ==
    [L EXCEPT ![l].rcvdFInputs = 0]

reset(L, l) ==
    [L EXCEPT ![l].rcvdFInputs = 0, ![l].rcvdBInputs = 0]

getRcvdBInputs(L, l) == L[l].rcvdBInputs

\* CostLayer::getError: a new vector v with the entries of _err; L is the
\* layer table the call leaves.
getError(L, l) == [L |-> L, v |-> [k \in 1..Len(L[l].err) |-> L[l].err[k]]]

incRcvdBInputs(L, l) == [L EXCEPT ![l].rcvdBInputs = @ + 1]

(***************************************************************************)
(* The state a call works on: the layer table L, the events ev recorded so *)
(* far, the two static flags, and err: "none", or how the call ended       *)
(* ("throw": a thrown string, "assert": a failed assert).                  *)
(***************************************************************************)
\* An event: the step op of layer l (i: the input index or list length it
\* is given, x: the variant taken, g: the gradient buffer it starts from,
\* r: the buffers it reads, o: the orientation flags it finds).
Event(op, l, i, x, g) ==
    [op |-> op, l |-> l, i |-> i, x |-> x, g |-> g, r |-> {}, o |-> {}]

\* The orientation flags a backward computation of layer l finds: of the
\* gradient buffer it is given, of every predecessor's two buffers and of
\* its own activation buffer.
BackwardFlags(s, l) ==
    {s.L[l].actGrads.trans, s.L[l].acts.trans}
        \cup {s.L[s.L[l].prev[i]].acts.trans : i \in 1..Len(s.L[l].prev)}
        \cup {s.L[s.L[l].prev[i]].actGrads.trans : i \in 1..Len(s.L[l].prev)}

Flags(s, op, l) ==
    IF op \in {"bpropCommon", "bpropActs", "bpropWeights"}
    THEN BackwardFlags(s, l)
    ELSE {}

Emit(s, op, l, i, x, g) ==
    [s EXCEPT !.ev = Append(@, [Event(op, l, i, x, g) EXCEPT
                                    !.o = Flags(s, op, l)])]

\* The buffer name of layer l.
Buf(name, l) == [buf |-> name, of |-> l]

EmitR(s, op, l, i, x, r) ==
    [s EXCEPT !.ev = Append(@, [Event(op, l, i, x, EmptyBag) EXCEPT
                                    !.r = r, !.o = Flags(s, op, l)])]

\* A matrix handed to fprop: the activation buffer of layer own (own # 0),
\* or the matrix idx of the driver's list, holding val.
ActsOf(p) == [own |-> p, val |-> 0]

External(i, x) == [own |-> 0, idx |-> i, val |-> x]

getActs(s, m) ==
    IF m.own # 0
    THEN s.L[m.own].acts
    ELSE [NVMatrix(m.val) EXCEPT !.trans = s.ext[m.idx]]

\* The orientation flags a forward computation of layer l finds: of every
\* matrix of v and of its own activation buffer.
ForwardFlags(s, l, v) ==
    {s.L[l].acts.trans} \cup {getActs(s, v[i]).trans : i \in 1..Len(v)}

\* What a forward computation of layer l leaves in its activation buffer,
\* given the sum x of the inputs it reads.
Act(l, x) == 10 * x + l

RECURSIVE SumVals(_, _, _)
SumVals(s, v, i) ==
    IF i > Len(v) THEN 0 ELSE getActs(s, v[i]).val + SumVals(s, v, i + 1)

(***************************************************************************)
(* Forward: the kind-specific computations.                                *)
(***************************************************************************)
FCLayer_fpropActs(s, l, v) ==
    [s EXCEPT !.L[l].acts.val = Act(l, SumVals(s, v, 1))]

SoftmaxLayer_fpropActs(s, l, v) ==
    [s EXCEPT !.L[l].acts.val = Act(l, getActs(s, v[1]).val)]

ConvLayer_fpropActs(s, l, v) ==
    [s EXCEPT !.L[l].acts.val = Act(l, getActs(s, v[1]).val)]

PoolLayer_fpropActs(s, l, v) ==
    [s EXCEPT !.L[l].acts.val = Act(l, getActs(s, v[1]).val)]

\* convResponseNorm(images, _denoms, _acts, ...)
ResponseNormLayer_fpropActs(s, l, v) ==
    [s EXCEPT !.L[l].denoms.val = Act(l, getActs(s, v[1]).val),
              !.L[l].acts.val = Act(l, getActs(s, v[1]).val)]

\* convLocalPool(images, _meanDiffs, ...); _meanDiffs.add(images, -1, 1);
\* convContrastNorm(images, _meanDiffs, _denoms, _acts, ...)
ContrastNormLayer_fpropActs(s, l, v) ==
    [s EXCEPT !.L[l].meanDiffs.val = Act(l, getActs(s, v[1]).val),
              !.L[l].denoms.val = Act(l, getActs(s, v[1]).val),
              !.L[l].acts.val = Act(l, getActs(s, v[1]).val)]

DataLayer_fpropActs(s, l, data) ==
    LET d == getActs(s, data[DataIdx + 1])
    IN  [s EXCEPT !.L[l].acts = [d EXCEPT !.view = TRUE]]

\* computeLogregCost: the log-probability of the true class and the
\* correct-prediction indicator, as functions of the labels and the
\* probabilities; _err holds (-sum of the first, numCases - sum of the second).
\* LogregCostLayer_fpropActs without the _err.clear() it starts with.
LogregCostLayer_fpropActs_NoClear(s, l, v) ==
    LET labels == getActs(s, v[1]).val
        probs  == getActs(s, v[2]).val
        s2     == [s EXCEPT !.L[l].acts.val = Act(l, labels + probs)]
        s3     == [s2 EXCEPT !.L[l].err = Append(@, [metric |-> "negLogProb", labels |-> labels, probs |-> probs])]
    IN  [s3 EXCEPT !.L[l].err = Append(@, [metric |-> "numWrong", labels |-> labels, probs |-> probs])]

LogregCostLayer_fpropActs(s, l, v) ==
    LET labels == getActs(s, v[1]).val
        probs  == getActs(s, v[2]).val
        s1     == [s EXCEPT !.L[l].err = << >>]
        s2     == [s1 EXCEPT !.L[l].acts.val = Act(l, labels + probs)]
        s3     == [s2 EXCEPT !.L[l].err = Append(@, [metric |-> "negLogProb", labels |-> labels, probs |-> probs])]
    IN  [s3 EXCEPT !.L[l].err = Append(@, [metric |-> "numWrong", labels |-> labels, probs |-> probs])]

fpropActs(s, l, v) ==
    LET s0 == Emit(s, "fpropActs", l, 0, "", EmptyBag)
        s1 == [s0 EXCEPT !.ev[Len(s0.ev)].o = ForwardFlags(s, l, v)]
    IN  CASE Kind[l] = "data"        -> DataLayer_fpropActs(s1, l, v)
          [] Kind[l] = "fc"          -> FCLayer_fpropActs(s1, l, v)
          [] Kind[l] = "softmax"     -> SoftmaxLayer_fpropActs(s1, l, v)
          [] Kind[l] = "conv"        -> ConvLayer_fpropActs(s1, l, v)
          [] Kind[l] = "pool"        -> PoolLayer_fpropActs(s1, l, v)
          [] Kind[l] = "rnorm"       -> ResponseNormLayer_fpropActs(s1, l, v)
          [] Kind[l] = "cnorm"       -> ContrastNormLayer_fpropActs(s1, l, v)
          [] Kind[l] = "cost.logreg" -> LogregCostLayer_fpropActs(s1, l, v)

(***************************************************************************)
(* Forward: the protocol of Layer and DataLayer.  fprop and fpropV are the *)
(* virtual calls fprop(passType) and fprop(v, passType).                   *)
(***************************************************************************)
RECURSIVE fprop(_, _), fpropV(_, _, _), fpropNextFrom(_, _, _), TransposeInputs(_, _, _, _)

\* for (i = 0; i < _next.size(); i++) _next[i]->fprop(passType), from entry i on;
\* a throw ends the loop.
fpropNextFrom(s, l, i) ==
    IF i > Len(s.L[l].next) \/ s.err # "none"
    THEN s
    ELSE fpropNextFrom(fprop(s, s.L[l].next[i]), l, i + 1)

fpropNext(s, l) == fpropNextFrom(s, l, 1)

\* (*it)->transpose(_trans) for every matrix of v, from entry i on.
TransposeInputs(s, l, v, i) ==
    IF i > Len(v)
    THEN s
    ELSE TransposeInputs(
            IF v[i].own # 0
            THEN [s EXCEPT !.L[v[i].own].acts = transpose(@, s.L[l].trans)]
            ELSE [s EXCEPT !.ext[v[i].idx] = s.L[l].trans],
            l, v, i + 1)

\* Layer_fpropV checking the length of v after the counter is set.
Layer_fpropV_LateCheck(s, l, v) ==
    LET s1 == [s EXCEPT !.L[l].rcvdFInputs = Len(s.L[l].prev)]
    IN  IF Len(v) # Len(s.L[l].prev)
        THEN [s1 EXCEPT !.err = "assert"]
        ELSE LET s2 == TransposeInputs(s1, l, v, 1)
                 s3 == [s2 EXCEPT !.L[l].acts = transpose(@, s2.L[l].trans)]
                 s4 == fpropActs(s3, l, v)
             IN  fpropNext(s4, l)

Layer_fpropV(s, l, v) ==
    IF Len(v) # Len(s.L[l].prev)
    THEN [s EXCEPT !.err = "assert"]
    ELSE LET s1 == [s EXCEPT !.L[l].rcvdFInputs = Len(s.L[l].prev)]
             s2 == TransposeInputs(s1, l, v, 1)
             s3 == [s2 EXCEPT !.L[l].acts = transpose(@, s2.L[l].trans)]
             s4 == fpropActs(s3, l, v)
         IN  fpropNext(s4, l)

DataLayer_fpropV(s, l, data) ==
    fpropNext(fpropActs(s, l, data), l)

fpropV(s, l, v) ==
    IF Kind[l] = "data" THEN DataLayer_fpropV(s, l, v) ELSE Layer_fpropV(s, l, v)

\* Layer_fprop firing on every call from the required count on.
Layer_fprop_AtLeast(s, l) ==
    LET s1 == [s EXCEPT !.L[l].rcvdFInputs = @ + 1]
    IN  IF s1.L[l].rcvdFInputs >= Len(s1.L[l].prev)
        THEN fpropV(s1, l, [i \in 1..Len(s1.L[l].prev) |-> ActsOf(s1.L[l].prev[i])])
        ELSE s1

\* Layer_fprop firing on the first call instead of the last.
Layer_fprop_FirstCall(s, l) ==
    LET s1 == [s EXCEPT !.L[l].rcvdFInputs = @ + 1]
    IN  IF s1.L[l].rcvdFInputs = 1
        THEN fpropV(s1, l, [i \in 1..Len(s1.L[l].prev) |-> ActsOf(s1.L[l].prev[i])])
        ELSE s1

Layer_fprop(s, l) ==
    LET s1 == [s EXCEPT !.L[l].rcvdFInputs = @ + 1]
    IN  IF s1.L[l].rcvdFInputs = Len(s1.L[l].prev)
        THEN fpropV(s1, l, [i \in 1..Len(s1.L[l].prev) |-> ActsOf(s1.L[l].prev[i])])
        ELSE s1

\* DataLayer_fprop as the fprop the data layer inherits.
DataLayer_fprop_Inherited(s, l) == Layer_fprop(s, l)

DataLayer_fprop(s, l) == [s EXCEPT !.err = "throw"]

fprop(s, l) ==
    LET s1 == Emit(s, "fprop", l, 0, "", EmptyBag)
    IN  IF Kind[l] = "data" THEN DataLayer_fprop(s1, l) ELSE Layer_fprop(s1, l)

(***************************************************************************)
(* Backward: the kind-specific input-gradient steps.  A contribution is    *)
(* the record of who computed it; Accumulate is the write of the kernel:   *)
(* the target is overwritten (add = FALSE: scaleTargets 0) or added to.    *)
(***************************************************************************)
Contribution(l, inpIdx, how) == [from |-> l, idx |-> inpIdx, how |-> how]

Accumulate(s, target, c, add) ==
    [s EXCEPT !.L[target].actGrads.val =
        IF add THEN @ (+) SetToBag({c}) ELSE SetToBag({c})]

\* FCLayer_bpropActs always overwriting its target.
FCLayer_bpropActs_Overwrite(s, l, inpIdx) ==
    Accumulate(EmitR(s, "bpropActs", l, inpIdx, "fc",
                         {Buf("actGrads", l)}),
               s.L[l].prev[inpIdx], Contribution(l, inpIdx, "fc"), FALSE)

FCLayer_bpropActs(s, l, inpIdx) ==
    LET p == s.L[l].prev[inpIdx]
    IN  IF getRcvdBInputs(s.L, p) = 0
        THEN Accumulate(EmitR(s, "bpropActs", l, inpIdx, "fc",
                         {Buf("actGrads", l)}),
                        p, Contribution(l, inpIdx, "fc"), FALSE)
        ELSE Accumulate(EmitR(s, "bpropActs", l, inpIdx, "fc",
                         {Buf("actGrads", l)}),
                        p, Contribution(l, inpIdx, "fc"), TRUE)

ConvLayer_bpropActs(s, l, inpIdx) ==
    LET p == s.L[l].prev[inpIdx]
        scaleTargets == IF getRcvdBInputs(s.L, p) = 0 THEN 0 ELSE 1
    IN  Accumulate(EmitR(s, "bpropActs", l, inpIdx, "conv",
                         {Buf("actGrads", l)}),
                   p, Contribution(l, inpIdx, "conv"), scaleTargets # 0)

\* SoftmaxLayer_bpropActs taking the fused path whenever its first successor
\* is the logistic-regression cost.
SoftmaxLayer_bpropActs_AnyFanOut(s, l, inpIdx) ==
    LET p == s.L[l].prev[inpIdx]
        doLogregGrad == /\ Len(s.L[l].next) >= 1
                        /\ s.L[s.L[l].next[1]].type = "cost.logreg"
    IN  IF doLogregGrad
        THEN Accumulate(EmitR(s, "bpropActs", l, inpIdx, "logregSoftmax",
                         {Buf("acts", s.L[s.L[l].next[1]].prev[1]), Buf("acts", l)}),
                        p, Contribution(l, inpIdx, "logregSoftmax"),
                        getRcvdBInputs(s.L, p) > 0)
        ELSE Accumulate(EmitR(s, "bpropActs", l, inpIdx, "softmax",
                         {Buf("acts", l), Buf("actGrads", l)}),
                        p, Contribution(l, inpIdx, "softmax"),
                        getRcvdBInputs(s.L, p) > 0)

SoftmaxLayer_bpropActs(s, l, inpIdx) ==
    LET p == s.L[l].prev[inpIdx]
        doLogregGrad == /\ Len(s.L[l].next) = 1
                        /\ s.L[s.L[l].next[1]].type = "cost.logreg"
    IN  IF doLogregGrad
        THEN Accumulate(EmitR(s, "bpropActs", l, inpIdx, "logregSoftmax",
                         {Buf("acts", s.L[s.L[l].next[1]].prev[1]), Buf("acts", l)}),
                        p, Contribution(l, inpIdx, "logregSoftmax"),
                        getRcvdBInputs(s.L, p) > 0)
        ELSE Accumulate(EmitR(s, "bpropActs", l, inpIdx, "softmax",
                         {Buf("acts", l), Buf("actGrads", l)}),
                        p, Contribution(l, inpIdx, "softmax"),
                        getRcvdBInputs(s.L, p) > 0)

\* LogregCostLayer_bpropActs computing the gradient whatever lies below.
LogregCostLayer_bpropActs_Always(s, l, inpIdx) ==
    LET p == s.L[l].prev[inpIdx]
    IN  Accumulate(EmitR(s, "bpropActs", l, inpIdx, "logreg",
                         {Buf("acts", s.L[l].prev[1]), Buf("acts", p)}),
                   p, Contribution(l, inpIdx, "logreg"),
                   getRcvdBInputs(s.L, p) > 0)

PoolLayer_bpropActs(s, l, inpIdx) ==
    LET p == s.L[l].prev[inpIdx]
        scaleTargets == IF getRcvdBInputs(s.L, p) = 0 THEN 0 ELSE 1
    IN  IF s.L[l].pool = "max"
        THEN Accumulate(EmitR(s, "bpropActs", l, inpIdx, "max",
                              {Buf("acts", p), Buf("actGrads", l), Buf("acts", l)}),
                        p, Contribution(l, inpIdx, "max"), scaleTargets # 0)
        ELSE IF s.L[l].pool = "avg"
        THEN Accumulate(EmitR(s, "bpropActs", l, inpIdx, "avg",
                              {Buf("actGrads", l)}),
                        p, Contribution(l, inpIdx, "avg"), scaleTargets # 0)
        ELSE Emit(s, "bpropActs", l, inpIdx, "none", EmptyBag)

ResponseNormLayer_bpropActs(s, l, inpIdx) ==
    LET p == s.L[l].prev[inpIdx]
        scaleTargets == IF getRcvdBInputs(s.L, p) = 0 THEN 0 ELSE 1
    IN  Accumulate(EmitR(s, "bpropActs", l, inpIdx, "rnorm",
                         {Buf("actGrads", l), Buf("denoms", l),
                          Buf("acts", p), Buf("acts", l)}),
                   p, Contribution(l, inpIdx, "rnorm"), scaleTargets # 0)

ContrastNormLayer_bpropActs(s, l, inpIdx) ==
    LET p == s.L[l].prev[inpIdx]
        scaleTargets == IF getRcvdBInputs(s.L, p) = 0 THEN 0 ELSE 1
    IN  Accumulate(EmitR(s, "bpropActs", l, inpIdx, "cnorm",
                         {Buf("actGrads", l), Buf("denoms", l),
                          Buf("meanDiffs", l), Buf("acts", l)}),
                   p, Contribution(l, inpIdx, "cnorm"), scaleTargets # 0)

LogregCostLayer_bpropActs(s, l, inpIdx) ==
    LET p == s.L[l].prev[inpIdx]
        doWork == Len(s.L[p].next) > 1 \/ s.L[p].type # "softmax"
    IN  IF doWork
        THEN Accumulate(EmitR(s, "bpropActs", l, inpIdx, "logreg",
                         {Buf("acts", s.L[l].prev[1]), Buf("acts", p)}),
                        p, Contribution(l, inpIdx, "logreg"),
                        getRcvdBInputs(s.L, p) > 0)
        ELSE Emit(s, "bpropActs", l, inpIdx, "none", EmptyBag)

bpropActs(s, l, inpIdx) ==
    CASE Kind[l] = "fc"          -> FCLayer_bpropActs(s, l, inpIdx)
      [] Kind[l] = "softmax"     -> SoftmaxLayer_bpropActs(s, l, inpIdx)
      [] Kind[l] = "conv"        -> ConvLayer_bpropActs(s, l, inpIdx)
      [] Kind[l] = "pool"        -> PoolLayer_bpropActs(s, l, inpIdx)
      [] Kind[l] = "rnorm"       -> ResponseNormLayer_bpropActs(s, l, inpIdx)
      [] Kind[l] = "cnorm"       -> ContrastNormLayer_bpropActs(s, l, inpIdx)
      [] Kind[l] = "cost.logreg" -> LogregCostLayer_bpropActs(s, l, inpIdx)
      [] OTHER                   -> Emit(s, "bpropActs", l, inpIdx, "none", EmptyBag)

\* The event carries the layer's gradient buffer as it is when the
\* computation starts; the fully connected and the convolution layer apply
\* the derivative of the neuron to it (_neuron->computeInputGrads(v)).
bpropCommon(s, l) ==
    LET s1 == Emit(s, "bpropCommon", l, 0, "", s.L[l].actGrads.val)
    IN  IF Kind[l] \in {"fc", "conv"}
        THEN [s1 EXCEPT !.ev[Len(s1.ev)].r = {Buf("actGrads", l)}]
        ELSE s1

\* The activation buffers of the predecessors of layer l.
PrevActs(s, l) == {Buf("acts", s.L[l].prev[i]) : i \in 1..Len(s.L[l].prev)}

FCLayer_bpropWeights(s, l) ==
    EmitR(s, "bpropWeights", l, 0, "", {Buf("actGrads", l)} \cup PrevActs(s, l))

\* With partial sums (0 < _partialSum < _modules) the weight gradient is
\* first computed into _weightGradsTmp and summed from there.
ConvLayer_bpropWeights(s, l) ==
    LET s1 == EmitR(s, "bpropWeights", l, 0, "",
                    {Buf("actGrads", l), Buf("acts", s.L[l].prev[1]),
                     Buf("weightGradsTmp", l)})
    IN  [s1 EXCEPT !.L[l].weightGradsTmp.val = 1]

bpropWeights(s, l) ==
    CASE Kind[l] = "fc"   -> FCLayer_bpropWeights(s, l)
      [] Kind[l] = "conv" -> ConvLayer_bpropWeights(s, l)
      [] OTHER            -> Emit(s, "bpropWeights", l, 0, "", EmptyBag)

\* buffer.truncate() of layer l, recorded.
Truncate(s, l, name, empty) ==
    [Emit(s, "truncate", l, 0, name, EmptyBag) EXCEPT
        !.L[l][name] = truncate(@, empty)]

Layer_truncBwdActs(s, l) ==
    LET s1 == IF ~s.saveActGrads
              THEN Truncate(s, l, "actGrads", EmptyBag)
              ELSE s
    IN  IF ~s1.saveActs
        THEN Truncate(s1, l, "acts", 0)
        ELSE s1

ConvLayer_truncBwdActs(s, l) ==
    LET s1 == Layer_truncBwdActs(s, l)
    IN  IF ~s1.saveActGrads
        THEN Truncate(s1, l, "weightGradsTmp", 0)
        ELSE s1

ResponseNormLayer_truncBwdActs(s, l) ==
    LET s1 == Layer_truncBwdActs(s, l)
    IN  IF ~s1.saveActs
        THEN Truncate(s1, l, "denoms", 0)
        ELSE s1

ContrastNormLayer_truncBwdActs(s, l) ==
    LET s1 == ResponseNormLayer_truncBwdActs(s, l)
    IN  IF ~s1.saveActs
        THEN Truncate(s1, l, "meanDiffs", 0)
        ELSE s1

truncBwdActs(s, l) ==
    LET s1 == Emit(s, "truncBwdActs", l, 0, "", EmptyBag)
    IN  CASE Kind[l] = "conv"  -> ConvLayer_truncBwdActs(s1, l)
          [] Kind[l] = "rnorm" -> ResponseNormLayer_truncBwdActs(s1, l)
          [] Kind[l] = "cnorm" -> ContrastNormLayer_truncBwdActs(s1, l)
          [] OTHER             -> Layer_truncBwdActs(s1, l)

(***************************************************************************)
(* Backward: the protocol of Layer and CostLayer.  bprop is the virtual    *)
(* call bprop(passType); Layer_bpropV is bprop(_actGrads, passType).       *)
(***************************************************************************)
RECURSIVE bprop(_, _), TransposePrev(_, _, _), TransposePrev_ActsOnly(_, _, _), bpropActsFrom(_, _, _), bpropPrevFrom(_, _, _)

\* TransposePrev leaving the predecessors' gradient buffers as they are.
TransposePrev_ActsOnly(s, l, i) ==
    IF i > Len(s.L[l].prev)
    THEN s
    ELSE LET p == s.L[l].prev[i]
         IN  TransposePrev_ActsOnly(
                [s EXCEPT !.L[p].acts = transpose(@, s.L[l].trans)],
                l, i + 1)

\* _prev[i]->getActs().transpose(_trans); _prev[i]->getActGrads().transpose(_trans)
TransposePrev(s, l, i) ==
    IF i > Len(s.L[l].prev)
    THEN s
    ELSE LET p == s.L[l].prev[i]
         IN  TransposePrev(
                [s EXCEPT !.L[p].acts = transpose(@, s.L[l].trans),
                          !.L[p].actGrads = transpose(@, s.L[l].trans)],
                l, i + 1)

\* The first loop over _prev of bprop(v, passType), from entry i on.
bpropActsFrom(s, l, i) ==
    IF i > Len(s.L[l].prev)
    THEN s
    ELSE LET p == s.L[l].prev[i]
         IN  IF isGradConsumer(s.L, p)
             THEN LET s1 == bpropActs(s, l, i)
                      s2 == [Emit(s1, "incRcvdBInputs", p, 0, "", EmptyBag)
                                EXCEPT !.L = incRcvdBInputs(s1.L, p)]
                  IN  bpropActsFrom(s2, l, i + 1)
             ELSE bpropActsFrom(s, l, i + 1)

\* The second loop over _prev of bprop(v, passType), from entry i on.
bpropPrevFrom(s, l, i) ==
    IF i > Len(s.L[l].prev)
    THEN s
    ELSE LET p == s.L[l].prev[i]
         IN  IF isGradConsumer(s.L, p)
             THEN bpropPrevFrom(bprop(s, p), l, i + 1)
             ELSE bpropPrevFrom(s, l, i + 1)

\* Layer_bpropV with the truncation step before the weight gradients.
Layer_bpropV_TruncFirst(s, l) ==
    LET s1 == [s EXCEPT !.L[l].actGrads = transpose(@, s.L[l].trans)]
        s2 == TransposePrev(s1, l, 1)
        s3 == [s2 EXCEPT !.L[l].acts = transpose(@, s2.L[l].trans)]
        s4 == bpropCommon(s3, l)
        s5 == IF isGradProducer(s4.L, l) THEN bpropActsFrom(s4, l, 1) ELSE s4
        s6 == truncBwdActs(s5, l)
        s7 == bpropWeights(s6, l)
    IN  IF isGradProducer(s7.L, l) THEN bpropPrevFrom(s7, l, 1) ELSE s7

Layer_bpropV(s, l) ==
    LET s1 == [s EXCEPT !.L[l].actGrads = transpose(@, s.L[l].trans)]
        s2 == TransposePrev(s1, l, 1)
        s3 == [s2 EXCEPT !.L[l].acts = transpose(@, s2.L[l].trans)]
        s4 == bpropCommon(s3, l)
        s5 == IF isGradProducer(s4.L, l) THEN bpropActsFrom(s4, l, 1) ELSE s4
        s6 == bpropWeights(s5, l)
        s7 == truncBwdActs(s6, l)
    IN  IF isGradProducer(s7.L, l) THEN bpropPrevFrom(s7, l, 1) ELSE s7

\* Layer_bprop firing whenever the counter has reached the count.
Layer_bprop_AtLeast(s, l) ==
    IF s.L[l].rcvdBInputs >= s.L[l].numGradProducersNext
    THEN Layer_bpropV([s EXCEPT !.L[l].rcvdBInputs = @ + 1], l)
    ELSE s

\* Layer_bprop without the increment that marks the layer as fired.
Layer_bprop_Unmarked(s, l) ==
    IF s.L[l].rcvdBInputs = s.L[l].numGradProducersNext
    THEN Layer_bpropV(s, l)
    ELSE s

Layer_bprop(s, l) ==
    IF s.L[l].rcvdBInputs = s.L[l].numGradProducersNext
    THEN Layer_bpropV([s EXCEPT !.L[l].rcvdBInputs = @ + 1], l)
    ELSE s

\* CostLayer_bprop without the test of the coefficient.
CostLayer_bprop_AnyCoeff(s, l) == Layer_bprop(s, l)

CostLayer_bprop(s, l) ==
    IF s.L[l].coeff # 0 THEN Layer_bprop(s, l) ELSE s

bprop(s, l) ==
    LET s1 == Emit(s, "bprop", l, 0, "", EmptyBag)
    IN  IF IsCost(l) THEN CostLayer_bprop(s1, l) ELSE Layer_bprop(s1, l)

(***************************************************************************)
(* The driver.  It is not part of layer.cu; it uses the layers as the      *)
(* driver-facing surface prescribes: it wires the graph, then per pass     *)
(* calls reset() on every layer and drives forward and backward calls.     *)
(***************************************************************************)
Init ==
    /\ \E c \in Coeffs : layers = [l \in DOMAIN Net |-> MakeLayer(Net[l], c)]
    /\ saveActs = TRUE
    /\ saveActGrads = TRUE
    /\ hist = << >>
    /\ pc = "build"
    /\ edges = 0
    /\ calls = 0
    /\ extra = 0
    /\ sweeps = 0

\* Layer b takes layer a as an input: b->addPrev(a); a->addNext(b).  The
\* layers are wired in configuration order, each from layers before it.
AddEdge(a, b) ==
    /\ pc = "build"
    /\ edges < MaxEdges
    /\ a < b
    /\ Kind[b] # "data"
    /\ \A l \in Layers : l > b => layers[l].prev = << >>
    /\ layers' = addNext(addPrev(layers, b, a), a, b)
    /\ edges' = edges + 1
    /\ UNCHANGED <<saveActs, saveActGrads, hist, pc, calls, extra, sweeps>>

\* The inputs each kind reads: fpropActs reads v[0] (and v[1] in the cost
\* layer), a data layer has no input.
MinInputs(kind) ==
    CASE kind = "data"        -> 0
      [] kind = "cost.logreg" -> 2
      [] OTHER                -> 1

WellFormed(L) ==
    \A l \in Layers :
        /\ Len(L[l].prev) >= MinInputs(Kind[l])
        /\ Kind[l] = "data" => Len(L[l].prev) = 0

\* reset() on every layer, in configuration order, from layer l on.
RECURSIVE ResetFrom(_, _)
ResetFrom(L, l) ==
    IF l > Len(L) THEN L ELSE ResetFrom(reset(L, l), l + 1)

\* A pass starts: the driver resets every layer.
ResetAll ==
    /\ pc \in {"build", "run"}
    /\ WellFormed(layers)
    /\ sweeps < MaxPass
    /\ sweeps' = sweeps + 1
    /\ layers' = ResetFrom(layers, 1)
    /\ hist' = << >>
    /\ pc' = "run"
    /\ UNCHANGED <<saveActs, saveActGrads, edges, calls, extra>>

\* The state a driver call starts in; the event names the call (n: the
\* length of the input list it supplies, ext: the orientation flags of the
\* matrices of that list).
Start(what, l, n) ==
    [ L            |-> layers,
      ext          |-> [i \in 1..n |-> FALSE],
      ev           |-> Append(hist, Event("driver", l, n, what, EmptyBag)),
      err          |-> "none",
      saveActs     |-> saveActs,
      saveActGrads |-> saveActGrads ]

\* The calls of the pass protocol: forward with data on a data layer,
\* backward on a cost layer.
Regular(what, l) ==
    \/ what = "fpropV" /\ Kind[l] = "data"
    \/ what = "bprop" /\ IsCost(l)

\* The call returned, or ended the step (and the run).
Finish(what, l, s) ==
    /\ layers' = s.L
    /\ IF s.err = "none"
       THEN /\ hist' = s.ev
            /\ pc' = "run"
            /\ calls' = calls + 1
            /\ extra' = IF Regular(what, l) THEN extra ELSE extra + 1
       ELSE /\ hist' = s.ev
            /\ pc' = (IF s.err = "throw" THEN "threw" ELSE "aborted")
            /\ UNCHANGED <<calls, extra>>
    /\ UNCHANGED <<saveActs, saveActGrads, edges, sweeps>>

\* What matrix i of the driver's list holds in pass p: every pass brings
\* its own batch.
Batch(p, i) == (MaxData + 1) * p + i

\* The input lists of the driver: n matrices holding the batch of the pass.
DataList(n) == [i \in 1..n |-> External(i, Batch(sweeps, i))]

Fprop(l) ==
    /\ pc = "run"
    /\ calls < MaxCalls
    /\ LET s == fprop(Start("fprop", l, 0), l)
       IN  /\ extra < MaxExtra
           /\ Finish("fprop", l, s)

FpropV(l, n) ==
    /\ pc = "run"
    /\ calls < MaxCalls
    /\ Kind[l] = "data" => n > DataIdx
    /\ LET s == fpropV(Start("fpropV", l, n), l, DataList(n))
       IN  /\ ~Regular("fpropV", l) => extra < MaxExtra
           /\ Finish("fpropV", l, s)

Bprop(l) ==
    /\ pc = "run"
    /\ calls < MaxCalls
    /\ ~Regular("bprop", l) => extra < MaxExtra
    /\ Finish("bprop", l, bprop(Start("bprop", l, 0), l))

Next ==
    \/ \E a, b \in Layers : AddEdge(a, b)
    \/ ResetAll
    \/ \E l \in Layers : Fprop(l)
    \/ \E l \in Layers, n \in 0..MaxData : FpropV(l, n)
    \/ \E l \in Layers : Bprop(l)

Spec == Init /\ [][Next]_vars

(***************************************************************************)
(* The pass protocol: the driver wires one of several networks, then       *)
(* repeats passes: reset() on every layer, forward with data once on every *)
(* data layer (in any order), then backward once on every cost layer (in   *)
(* any order).  The two static switches are set before the layers are      *)
(* used.                                                                   *)
(***************************************************************************)
NetNorm == <<"data", "pool.max", "rnorm", "cnorm", "cost.logreg">>

NetTwoData == <<"data", "data", "pool.avg", "fc", "cost.logreg">>

NetTwoCost == <<"data", "fc", "cost.logreg", "cost.logreg">>

Nets == {Net, NetNorm, NetTwoData, NetTwoCost}

InitProtocol ==
    /\ \E net \in Nets, c \in Coeffs :
           layers = [l \in DOMAIN net |-> MakeLayer(net[l], c)]
    /\ saveActs \in BOOLEAN
    /\ saveActGrads \in BOOLEAN
    /\ hist = << >>
    /\ pc = "build"
    /\ edges = 0
    /\ calls = 0
    /\ extra = 0
    /\ sweeps = 0

\* The driver has called layer l in the pass recorded in h.
DrivenIn(h, l) == \E q \in 1..Len(h) : h[q].op = "driver" /\ h[q].l = l

\* The pass recorded in h is a whole cycle: forward was called on every
\* data layer and backward on every cost layer.
Complete(h) ==
    \A l \in Layers : (Kind[l] = "data" \/ IsCost(l)) => DrivenIn(h, l)

\* How often each layer ran its forward and its backward computation in the
\* pass recorded in h.
Firings(h) ==
    [l \in Layers |->
        [f |-> Cardinality({q \in 1..Len(h) : h[q].op = "fpropActs" /\ h[q].l = l}),
         b |-> Cardinality({q \in 1..Len(h) : h[q].op = "bpropCommon" /\ h[q].l = l})]]

\* A pass starts: reset() on every layer.  The history of the new pass
\* starts with the firing counts of the cycle before it, if that was whole.
NewPass ==
    /\ pc \in {"build", "run"}
    /\ WellFormed(layers)
    /\ sweeps < MaxPass
    /\ sweeps' = sweeps + 1
    /\ layers' = ResetFrom(layers, 1)
    /\ hist' = IF Complete(hist)
               THEN << Event("cycle", 0, 0, "", Firings(hist)) >>
               ELSE << >>
    /\ pc' = "run"
    /\ calls' = 0
    /\ UNCHANGED <<saveActs, saveActGrads, edges, extra>>

\* The driver has called layer l in this pass.
Driven(l) == \E q \in 1..Len(hist) : hist[q].op = "driver" /\ hist[q].l = l

Forward(l) ==
    /\ Kind[l] = "data"
    /\ ~Driven(l)
    /\ FpropV(l, DataIdx + 1)

Backward(l) ==
    /\ IsCost(l)
    /\ ~Driven(l)
    /\ \A d \in Layers : Kind[d] = "data" => Driven(d)
    /\ Bprop(l)

NextProtocol ==
    \/ \E a, b \in Layers : AddEdge(a, b)
    \/ NewPass
    \/ \E l \in Layers : Forward(l)
    \/ \E l \in Layers : Backward(l)

SpecProtocol == InitProtocol /\ [][NextProtocol]_vars

(***************************************************************************)
(* Free assembly: any sequence of addNext and addPrev calls, each recorded  *)
(* in the history.                                                         *)
(***************************************************************************)
AddNext(a, b) ==
    /\ pc = "build"
    /\ edges < MaxAsm
    /\ a # b
    /\ layers' = addNext(layers, a, b)
    /\ hist' = Append(hist, Event("addNext", a, b, "", EmptyBag))
    /\ edges' = edges + 1
    /\ UNCHANGED <<saveActs, saveActGrads, pc, calls, extra, sweeps>>

AddPrev(a, b) ==
    /\ pc = "build"
    /\ edges < MaxAsm
    /\ a # b
    /\ layers' = addPrev(layers, a, b)
    /\ hist' = Append(hist, Event("addPrev", a, b, "", EmptyBag))
    /\ edges' = edges + 1
    /\ UNCHANGED <<saveActs, saveActGrads, pc, calls, extra, sweeps>>

NextAssembly ==
    \/ \E a, b \in Layers : AddNext(a, b)
    \/ \E a, b \in Layers : AddPrev(a, b)

SpecAssembly == Init /\ [][NextAssembly]_vars

(***************************************************************************)
(* Construction from configuration records: the layers made so far are     *)
(* the sequence layers; each call is recorded with its tag and the index   *)
(* of the layer it made (0: none); a throw ends the construction.          *)
(***************************************************************************)
MaxMade == 3

CostTags == {"cost.logreg", "cost.Logreg", "cost.logreg2", "logreg", "cost", ""}

PoolKinds == {"max", "avg", "Max", "AVG", "average", "min", ""}

InitFactory ==
    /\ layers = << >>
    /\ saveActs = TRUE
    /\ saveActGrads = TRUE
    /\ hist = << >>
    /\ pc = "build"
    /\ edges = 0
    /\ calls = 0
    /\ extra = 0
    /\ sweeps = 0

Construct(what, tag, r) ==
    /\ pc = "build"
    /\ Len(layers) < MaxMade
    /\ IF r.ok
       THEN /\ layers' = Append(layers, r.layer)
            /\ hist' = Append(hist, Event(what, 0, Len(layers) + 1, tag, EmptyBag))
            /\ pc' = "build"
       ELSE /\ layers' = layers
            /\ hist' = hist \o << Event(what, 0, 0, tag, EmptyBag),
                                  Event("throw", 0, 0, r.error, EmptyBag) >>
            /\ pc' = "threw"
    /\ UNCHANGED <<saveActs, saveActGrads, edges, calls, extra, sweeps>>

MakeCostLayer(type, coeff) == Construct("makeCostLayer", type, makeCostLayer(type, coeff))

MakePoolLayer(pool) == Construct("PoolLayer", pool, PoolLayer(pool))

NextFactory ==
    \/ \E type \in CostTags, coeff \in Coeffs : MakeCostLayer(type, coeff)
    \/ \E pool \in PoolKinds : MakePoolLayer(pool)

SpecFactory == InitFactory /\ [][NextFactory]_vars

(***************************************************************************)
(* Reading the history of a pass.                                          *)
(***************************************************************************)
\* The positions in h of the events op of layer l.
Pos(h, op, l) == {q \in 1..Len(h) : h[q].op = op /\ h[q].l = l}

\* How many of the positions P lie before q, and up to q.
Before(P, q) == Cardinality({r \in P : r < q})

UpTo(P, q) == Cardinality({r \in P : r <= q})

\* The driver has driven layer l with an explicit input list of the right
\* length in this pass.
ExplicitlyDriven(h, l) ==
    \E q \in Pos(h, "driver", l) : h[q].x = "fpropV" /\ h[q].i = Len(layers[l].prev)

\* The driver has made only calls of the pass protocol in this pass.
ProtocolOnly(h) ==
    \A q \in 1..Len(h) : h[q].op = "driver" => Regular(h[q].x, h[q].l)

\* This step is the driver's call what on layer l.
Called(what, l) ==
    /\ Len(hist') > Len(hist)
    /\ hist'[Len(hist) + 1].op = "driver"
    /\ hist'[Len(hist) + 1].x = what
    /\ hist'[Len(hist) + 1].l = l

\* The history ends with the driver's call what on layer l, which did
\* nothing but record the events tail.
EndsWith(h, what, l, tail) ==
    /\ Len(h) > Len(tail)
    /\ h[Len(h) - Len(tail)].op = "driver"
    /\ h[Len(h) - Len(tail)].x = what
    /\ h[Len(h) - Len(tail)].l = l
    /\ SubSeq(h, Len(h) - Len(tail) + 1, Len(h)) = tail

\* How often x is listed in seq.
Count(seq, x) == Cardinality({k \in 1..Len(seq) : seq[k] = x})

\* The layer a bpropActs event writes to.
Target(e) == layers[e.l].prev[e.i]

\* The contributions written to layer p before position q of h.
RECURSIVE Written(_, _, _)
Written(h, p, q) ==
    IF q <= 1
    THEN EmptyBag
    ELSE LET e == h[q - 1]
         IN  IF e.op = "bpropActs" /\ e.x # "none" /\ Target(e) = p
             THEN Written(h, p, q - 1) (+) SetToBag({Contribution(e.l, e.i, e.x)})
             ELSE Written(h, p, q - 1)

(***************************************************************************)
(* C1.  A layer with N >= 1 predecessors that is driven by its             *)
(* predecessors runs its forward computation during the N-th no-argument   *)
(* forward call it receives in a pass and during no other: the call event  *)
(* is directly followed by fpropActs exactly when it is the N-th.          *)
(***************************************************************************)
C1_ForwardFiresOnNthCall ==
    \A l \in Layers :
        (Len(layers[l].prev) >= 1 /\ ~ExplicitlyDriven(hist, l)) =>
            LET N     == Len(layers[l].prev)
                rcvd  == Pos(hist, "fprop", l)
                fired == Pos(hist, "fpropActs", l)
            IN  /\ \A q \in rcvd : (q + 1 \in fired) <=> (UpTo(rcvd, q) = N)
                /\ \A f \in fired : f - 1 \in rcvd
                /\ Cardinality(fired) <= 1
                /\ Cardinality(rcvd) >= N => Cardinality(fired) = 1

\* A layer with two predecessors has received more than two calls and has
\* fired once.
C1_Witness ==
    \E l \in Layers :
        /\ Len(layers[l].prev) >= 2
        /\ ~ExplicitlyDriven(hist, l)
        /\ Cardinality(Pos(hist, "fprop", l)) > Len(layers[l].prev)
        /\ Cardinality(Pos(hist, "fpropActs", l)) = 1

(***************************************************************************)
(* C2 as stated.  A layer whose gradient-producing-successor count is      *)
(* K >= 1 runs its backward computation during the K-th backward call it   *)
(* receives in a pass and during no other (the driver calling backward on  *)
(* cost layers only).                                                      *)
(***************************************************************************)
C2_BackwardFiresOnKthCall ==
    \A l \in Layers :
        (layers[l].numGradProducersNext >= 1 /\ ProtocolOnly(hist)) =>
            LET K     == layers[l].numGradProducersNext
                rcvd  == Pos(hist, "bprop", l)
                fired == Pos(hist, "bpropCommon", l)
            IN  \A q \in rcvd : (q + 1 \in fired) <=> (UpTo(rcvd, q) = K)

(***************************************************************************)
(* C2, amended.  A layer runs its backward computation (bpropCommon and    *)
(* bpropWeights) at most once per pass: during the first backward call it  *)
(* receives after K contributions have been counted for it                 *)
(* (incRcvdBInputs), a cost layer only with a non-zero coefficient.  With  *)
(* a skip connection or a repeated predecessor entry that call comes       *)
(* before the K-th.                                                        *)
(***************************************************************************)
C2_BackwardFiresWhenCounted ==
    \A l \in Layers :
        LET K     == layers[l].numGradProducersNext
            rcvd  == Pos(hist, "bprop", l)
            fired == Pos(hist, "bpropCommon", l)
            incs  == Pos(hist, "incRcvdBInputs", l)
        IN  /\ \A q \in rcvd :
                   (q + 1 \in fired) <=>
                       /\ Before(incs, q) = K
                       /\ Before(fired, q) = 0
                       /\ IsCost(l) => layers[l].coeff # 0
            /\ \A f \in fired : f - 1 \in rcvd
            /\ Cardinality(fired) <= 1
            /\ Cardinality(Pos(hist, "bpropWeights", l)) = Cardinality(fired)

\* A layer with K = 2 has fired during the first backward call it received.
C2_Witness ==
    \E l \in Layers :
        /\ layers[l].numGradProducersNext = 2
        /\ \E q \in Pos(hist, "bprop", l) :
              /\ UpTo(Pos(hist, "bprop", l), q) = 1
              /\ q + 1 \in Pos(hist, "bpropCommon", l)

(***************************************************************************)
(* C3.  When a gradient-consuming layer runs its backward computation, its *)
(* gradient buffer holds exactly the contributions written to it in this   *)
(* pass, each once, and every entry of a gradient-producing successor's    *)
(* predecessor list that names the layer has made its input-gradient step  *)
(* once: nothing of an earlier pass is left in the buffer.                 *)
(***************************************************************************)
C3_GradientIsSumOfContributions ==
    \A p \in Layers :
        layers[p].gradConsumer =>
            \A f \in Pos(hist, "bpropCommon", p) :
                /\ hist[f].g = Written(hist, p, f)
                /\ \A x \in Layers : \A i \in 1..Len(layers[x].prev) :
                       (layers[x].prev[i] = p /\ layers[x].gradProducer) =>
                           Cardinality({q \in Pos(hist, "bpropActs", x) :
                                           q < f /\ hist[q].i = i}) = 1

\* In a second pass a layer has fired on a buffer summed from two
\* contributions.
C3_Witness ==
    /\ sweeps = 2
    /\ \E p \in Layers : \E f \in Pos(hist, "bpropCommon", p) :
           BagCardinality(hist[f].g) = 2

(***************************************************************************)
(* C4.  Every input-gradient step of a softmax layer takes the fused       *)
(* softmax+log-likelihood path if the layer has exactly one successor and  *)
(* that successor's type is cost.logreg, and the generic path otherwise.   *)
(***************************************************************************)
C4_FusedIffSoleLogregSuccessor ==
    \A q \in 1..Len(hist) :
        (hist[q].op = "bpropActs" /\ Kind[hist[q].l] = "softmax") =>
            LET nxt == layers[hist[q].l].next
            IN  /\ hist[q].x \in {"logregSoftmax", "softmax"}
                /\ hist[q].x = "logregSoftmax" <=>
                       (Len(nxt) = 1 /\ Kind[nxt[1]] = "cost.logreg")

\* A softmax layer with two successors, one of them the cost layer, has
\* taken the generic path.
C4_Witness ==
    \E q \in 1..Len(hist) :
        /\ hist[q].op = "bpropActs"
        /\ Kind[hist[q].l] = "softmax"
        /\ hist[q].x = "softmax"
        /\ Len(layers[hist[q].l].next) >= 2
        /\ \E k \in 1..Len(layers[hist[q].l].next) : IsCost(layers[hist[q].l].next[k])

(***************************************************************************)
(* The two computations of the edge from a softmax layer to the cost       *)
(* layer c that lists it as predecessor i.                                 *)
(***************************************************************************)
CostFired(h, c) == Pos(h, "bpropCommon", c) # {}

Fused(h, sm) ==
    \E q \in Pos(h, "bpropActs", sm) : h[q].x = "logregSoftmax"

Explicit(h, c, i) ==
    \E q \in Pos(h, "bpropActs", c) : h[q].i = i /\ h[q].x = "logreg"

SoftmaxEdges ==
    {e \in Layers \X (1..MaxEdges) :
        /\ IsCost(e[1])
        /\ e[2] <= Len(layers[e[1]].prev)
        /\ Kind[layers[e[1]].prev[e[2]]] = "softmax"}

(***************************************************************************)
(* C5 as stated.  Once the cost layer has run its backward computation in  *)
(* a pass, for every edge from a softmax layer to it exactly one of the    *)
(* softmax layer's fused gradient and the cost layer's explicit input      *)
(* gradient has executed: never both, never neither.                       *)
(***************************************************************************)
C5_ExactlyOneGradientPath ==
    \A e \in SoftmaxEdges :
        CostFired(hist, e[1]) =>
            (Fused(hist, layers[e[1]].prev[e[2]]) <=> ~Explicit(hist, e[1], e[2]))

(***************************************************************************)
(* C5, amended.  Once the cost layer has run its backward computation,     *)
(* for every edge from a softmax layer to it: the two computations never   *)
(* both execute; the explicit gradient executes exactly if the softmax     *)
(* layer has more than one successor entry; the fused gradient executes    *)
(* exactly if the cost layer is the sole successor entry and the softmax   *)
(* layer has a gradient-consuming predecessor.  Neither executes for a     *)
(* softmax layer fed by data layers only.                                  *)
(***************************************************************************)
C5_AtMostOneGradientPath ==
    \A e \in SoftmaxEdges :
        CostFired(hist, e[1]) =>
            LET c  == e[1]
                sm == layers[c].prev[e[2]]
            IN  /\ ~(Fused(hist, sm) /\ Explicit(hist, c, e[2]))
                /\ Explicit(hist, c, e[2]) <=> Len(layers[sm].next) > 1
                /\ Fused(hist, sm) <=>
                       /\ Len(layers[sm].next) = 1
                       /\ \E j \in 1..Len(layers[sm].prev) :
                              layers[layers[sm].prev[j]].gradConsumer

\* The cost layer has fired, the softmax layer below it has taken the fused
\* path and the cost layer has skipped its explicit gradient for the edge.
C5_Witness ==
    \E e \in SoftmaxEdges :
        /\ CostFired(hist, e[1])
        /\ Fused(hist, layers[e[1]].prev[e[2]])
        /\ \E q \in Pos(hist, "bpropActs", e[1]) :
               hist[q].i = e[2] /\ hist[q].x = "none"

(***************************************************************************)
(* C6.  A cost layer whose coefficient is 0 is no gradient producer and is *)
(* counted in no layer's gradient-producing-successor count; it never      *)
(* runs a backward computation and no counter increment follows a step of  *)
(* it; the driver's backward call on it changes no layer and records       *)
(* nothing but the call itself.                                            *)
(***************************************************************************)
C6_ZeroCoeffNotCounted ==
    \A c \in Layers :
        (IsCost(c) /\ layers[c].coeff = 0) =>
            /\ ~layers[c].gradProducer
            /\ \A p \in Layers :
                   layers[p].numGradProducersNext =
                       Cardinality({k \in 1..Len(layers[p].next) :
                                       /\ layers[p].next[k] # c
                                       /\ layers[layers[p].next[k]].gradProducer})
            /\ Pos(hist, "bpropCommon", c) = {}
            /\ Pos(hist, "bpropActs", c) = {}
            /\ \A q \in 1..Len(hist) :
                   hist[q].op = "incRcvdBInputs" =>
                       hist[q - 1].op = "bpropActs" /\ hist[q - 1].l # c

C6_ZeroCoeffBackwardStep ==
    \A c \in Layers :
        (IsCost(c) /\ layers[c].coeff = 0 /\ Called("bprop", c)) =>
            /\ layers' = layers
            /\ pc' = "run"
            /\ hist' = hist \o << Event("driver", c, 0, "bprop", EmptyBag),
                                  Event("bprop", c, 0, "", EmptyBag) >>

C6_ZeroCoeffCostIsInert ==
    []C6_ZeroCoeffNotCounted /\ [][C6_ZeroCoeffBackwardStep]_vars

\* The driver has called backward on a zero-coefficient cost layer that has
\* a softmax predecessor, after a forward pass.
C6_Witness ==
    \E c \in Layers :
        /\ IsCost(c)
        /\ layers[c].coeff = 0
        /\ \E i \in 1..Len(layers[c].prev) : Kind[layers[c].prev[i]] = "softmax"
        /\ Pos(hist, "fpropActs", c) # {}
        /\ EndsWith(hist, "bprop", c, << Event("bprop", c, 0, "", EmptyBag) >>)

(***************************************************************************)
(* C7.  A backward call on a layer whose counter differs from its          *)
(* gradient-producing-successor count does nothing and is no error: the    *)
(* driver's call changes no layer, records nothing but the call itself     *)
(* and returns; a call made by a successor (the counter is the increments  *)
(* plus the firings recorded before it) is followed by no step of the      *)
(* layer until its next call.                                              *)
(***************************************************************************)
C7_UnsatisfiedCallInHistory ==
    \A l \in Layers : \A q \in Pos(hist, "bprop", l) :
        LET counter == Before(Pos(hist, "incRcvdBInputs", l), q)
                         + Before(Pos(hist, "bpropCommon", l), q)
            later   == {r \in Pos(hist, "bprop", l) : r > q}
        IN  counter # layers[l].numGradProducersNext =>
                \A r \in (q + 1)..Len(hist) :
                    (hist[r].l = l /\ \A n \in later : r < n) =>
                        hist[r].op \notin {"bpropCommon", "bpropActs",
                                           "bpropWeights", "truncBwdActs"}

C7_UnsatisfiedCallStep ==
    \A l \in Layers :
        (/\ Called("bprop", l)
         /\ layers[l].rcvdBInputs # layers[l].numGradProducersNext) =>
            /\ layers' = layers
            /\ pc' = "run"
            /\ hist' = hist \o << Event("driver", l, 0, "bprop", EmptyBag),
                                  Event("bprop", l, 0, "", EmptyBag) >>

C7_UnsatisfiedBackwardIsNoOp ==
    []C7_UnsatisfiedCallInHistory /\ [][C7_UnsatisfiedCallStep]_vars

\* The driver has called backward on a layer that had fired before in this
\* pass, and on a layer whose fan-in was not satisfied.
C7_Witness ==
    \E l \in Layers :
        /\ layers[l].rcvdBInputs # layers[l].numGradProducersNext
        /\ EndsWith(hist, "bprop", l, << Event("bprop", l, 0, "", EmptyBag) >>)
        /\ \/ Pos(hist, "bpropCommon", l) # {}
           \/ layers[l].rcvdBInputs < layers[l].numGradProducersNext

(***************************************************************************)
(* C8.  The driver's forward call without an input list on a data layer    *)
(* ends with a thrown error and changes no layer: no counter, no           *)
(* activation buffer; nothing is recorded but the call itself, so no       *)
(* successor's forward is invoked.                                         *)
(***************************************************************************)
C8_DataForwardWithoutInputThrows ==
    [][\A l \in Layers :
          (Kind[l] = "data" /\ Called("fprop", l)) =>
              /\ pc' = "threw"
              /\ layers' = layers
              /\ hist' = hist \o << Event("driver", l, 0, "fprop", EmptyBag),
                                    Event("fprop", l, 0, "", EmptyBag) >>]_vars

\* The run has ended in the throw of a data layer that has a successor.
C8_Witness ==
    \E l \in Layers :
        /\ Kind[l] = "data"
        /\ pc = "threw"
        /\ layers[l].next # << >>
        /\ EndsWith(hist, "fprop", l, << Event("fprop", l, 0, "", EmptyBag) >>)

\* The driver's forward call on layer l with a list whose length is not the
\* number of l's predecessors fails its precondition and leaves every layer
\* as it was.
FailsFast(l) ==
    (/\ Called("fpropV", l)
     /\ hist'[Len(hist) + 1].i # Len(layers[l].prev)) =>
        /\ pc' = "aborted"
        /\ layers' = layers
        /\ hist' = Append(hist, hist'[Len(hist) + 1])

(***************************************************************************)
(* C9 as stated.  For every layer kind, the forward call with an input     *)
(* list whose length differs from the number of predecessors fails its     *)
(* precondition before any flag, counter or buffer changes and before any  *)
(* computation or successor forward runs.                                  *)
(***************************************************************************)
C9_WrongLengthFailsFast ==
    [][\A l \in Layers : FailsFast(l)]_vars

(***************************************************************************)
(* C9, amended.  The same for every layer kind but the data layer: a data  *)
(* layer has no predecessor, takes the driver's whole list without a       *)
(* check of its length, and stores the entry at its data index.            *)
(***************************************************************************)
C9_WrongLengthFailsFastButData ==
    [][\A l \in Layers :
          /\ Kind[l] # "data" => FailsFast(l)
          /\ (Kind[l] = "data" /\ Called("fpropV", l)) =>
                 /\ pc' = "run"
                 /\ layers'[l].acts.val = Batch(sweeps, DataIdx + 1)]_vars

\* The run has ended in the failed precondition of a layer that has two
\* predecessors and was given a list of one matrix.
C9_Witness ==
    \E l \in Layers :
        /\ pc = "aborted"
        /\ Len(layers[l].prev) = 2
        /\ EndsWith(hist, "fpropV", l, << >>)
        /\ hist[Len(hist)].i = 1

(***************************************************************************)
(* C10 as stated.  After any sequence of addNext and addPrev calls layer b *)
(* is in a's successor list as many times as a is in b's predecessor list. *)
(***************************************************************************)
C10_EdgeRelationSymmetric ==
    \A a, b \in Layers :
        Count(layers[a].next, b) = Count(layers[b].prev, a)

(***************************************************************************)
(* C10, amended.  Each call updates the list of the layer it is called on  *)
(* only: b is in a's successor list once per call a.addNext(b), a is in    *)
(* b's predecessor list once per call b.addPrev(a), and a's count is the   *)
(* number of its successor entries that produce gradients.  The relation   *)
(* is symmetric exactly when the two calls were made equally often for     *)
(* every pair of layers.                                                   *)
(***************************************************************************)
C10_EachCallUpdatesItsReceiver ==
    \A a, b \in Layers :
        /\ Count(layers[a].next, b) =
               Cardinality({q \in Pos(hist, "addNext", a) : hist[q].i = b})
        /\ Count(layers[b].prev, a) =
               Cardinality({q \in Pos(hist, "addPrev", b) : hist[q].i = a})
        /\ layers[a].numGradProducersNext =
               Cardinality({k \in 1..Len(layers[a].next) :
                               layers[layers[a].next[k]].gradProducer})

\* After addNext calls alone a layer has successors and no layer has a
\* predecessor.
C10_Witness ==
    /\ \E a \in Layers : Len(layers[a].next) >= 2
    /\ \A b \in Layers : layers[b].prev = << >>

(***************************************************************************)
(* C11.  A data layer is neither a gradient consumer nor a gradient        *)
(* producer, and in a pass in which the driver calls backward on cost      *)
(* layers only it receives no backward call, runs no backward              *)
(* computation, its backward counter is not incremented (it stays 0) and   *)
(* no input-gradient step writes to its gradient buffer, whatever layers   *)
(* list it as predecessor.                                                 *)
(***************************************************************************)
C11_DataLayerNeverInBackward ==
    \A d \in Layers :
        Kind[d] = "data" =>
            /\ ~layers[d].gradConsumer
            /\ ~layers[d].gradProducer
            /\ layers[d].actGrads.val = EmptyBag
            /\ ProtocolOnly(hist) =>
                   /\ Pos(hist, "bprop", d) = {}
                   /\ Pos(hist, "bpropCommon", d) = {}
                   /\ Pos(hist, "incRcvdBInputs", d) = {}
                   /\ layers[d].rcvdBInputs \in {Uninit, 0}
                   /\ \A q \in 1..Len(hist) :
                          hist[q].op = "bpropActs" => Target(hist[q]) # d

\* Two gradient-producing layers that list a data layer as predecessor have
\* run their backward computation in a pass of protocol calls only.
C11_Witness ==
    /\ ProtocolOnly(hist)
    /\ \E l, m \in Layers :
           /\ l # m
           /\ \A x \in {l, m} :
                  /\ layers[x].gradProducer
                  /\ Pos(hist, "bpropCommon", x) # {}
                  /\ \E i \in 1..Len(layers[x].prev) : Kind[layers[x].prev[i]] = "data"

(***************************************************************************)
(* C12.  The cost-layer factory makes a layer (a logistic-regression cost  *)
(* layer) exactly for the tag cost.logreg and the pooling-layer            *)
(* constructor exactly for the kinds max and avg; for every other tag the  *)
(* call throws an error that names the tag, no layer is made and the       *)
(* construction ends.                                                      *)
(***************************************************************************)
C12_UnknownTagFailsConstruction ==
    /\ Len(layers) = Cardinality({q \in 1..Len(hist) : hist[q].i # 0})
    /\ \A q \in 1..Len(hist) :
           /\ hist[q].op = "makeCostLayer" =>
                  IF hist[q].x = "cost.logreg"
                  THEN /\ hist[q].i \in 1..Len(layers)
                       /\ layers[hist[q].i].type = "cost.logreg"
                  ELSE /\ hist[q].i = 0
                       /\ pc = "threw"
                       /\ q + 1 = Len(hist)
                       /\ hist[q + 1] = Event("throw", 0, 0,
                              "Unknown cost layer type " \o hist[q].x, EmptyBag)
           /\ hist[q].op = "PoolLayer" =>
                  IF hist[q].x \in {"max", "avg"}
                  THEN /\ hist[q].i \in 1..Len(layers)
                       /\ layers[hist[q].i].type = "pool"
                       /\ layers[hist[q].i].pool = hist[q].x
                  ELSE /\ hist[q].i = 0
                       /\ pc = "threw"
                       /\ q + 1 = Len(hist)
                       /\ hist[q + 1] = Event("throw", 0, 0,
                              "Unknown pooling type " \o hist[q].x, EmptyBag)

\* After a cost layer and a pooling layer were made, a construction with a
\* tag that differs from an accepted one in a letter's case has thrown.
C12_Witness ==
    /\ pc = "threw"
    /\ Len(layers) = 2
    /\ \E q \in 1..Len(hist) : hist[q].op = "makeCostLayer" /\ hist[q].i # 0
    /\ \E q \in 1..Len(hist) : hist[q].op = "PoolLayer" /\ hist[q].i # 0
    /\ \E q \in 1..Len(hist) : hist[q].x \in {"cost.Logreg", "Max", "AVG"}

(***************************************************************************)
(* The steps of one backward firing, read from the history.                *)
(***************************************************************************)
\* The entries of l's predecessor list that l computes a gradient for.
ConsumingEntries(l) ==
    IF layers[l].gradProducer
    THEN SelectSeq([i \in 1..Len(layers[l].prev) |-> i],
                   LAMBDA i : layers[layers[l].prev[i]].gradConsumer)
    ELSE << >>

\* The truncate events that directly follow the truncation step at u.
TruncAfter(u) ==
    {q \in (u + 1)..Len(hist) :
        \A r \in (u + 1)..q : hist[r].op = "truncate" /\ hist[r].l = hist[u].l}

\* The backward calls layer p receives from the firings of its successors.
CallsFromSuccessors(p) ==
    {e \in Layers \X (1..MaxEdges) :
        /\ Pos(hist, "bpropCommon", e[1]) # {}
        /\ e[2] \in 1..Len(layers[e[1]].prev)
        /\ layers[e[1]].prev[e[2]] = p
        /\ layers[e[1]].gradProducer
        /\ layers[p].gradConsumer}

(***************************************************************************)
(* C13.  A backward firing of a layer runs, in this order: bpropCommon;    *)
(* for each gradient-consuming predecessor entry (if the layer produces    *)
(* gradients) bpropActs directly followed by the increment of that         *)
(* predecessor's counter; bpropWeights; truncBwdActs; and only then the    *)
(* backward calls into the predecessors, one per entry.  The truncation    *)
(* step truncates the gradient buffer exactly if _saveActGrads is off and  *)
(* the activation buffer exactly if _saveActs is off, and a buffer that is *)
(* not truncated keeps its contents; no truncation happens elsewhere, and  *)
(* none at all with both switches on.                                      *)
(***************************************************************************)
C13_BackwardStepOrder ==
    /\ \A l \in Layers : \A f \in Pos(hist, "bpropCommon", l) :
           LET cons == ConsumingEntries(l)
               m    == Len(cons)
               u    == f + 2 * m + 2
               T    == TruncAfter(u)
           IN  /\ Len(hist) >= u
               /\ \A k \in 1..m :
                      /\ hist[f + 2 * k - 1].op = "bpropActs"
                      /\ hist[f + 2 * k - 1].l = l
                      /\ hist[f + 2 * k - 1].i = cons[k]
                      /\ hist[f + 2 * k].op = "incRcvdBInputs"
                      /\ hist[f + 2 * k].l = layers[l].prev[cons[k]]
               /\ hist[u - 1].op = "bpropWeights" /\ hist[u - 1].l = l
               /\ hist[u].op = "truncBwdActs" /\ hist[u].l = l
               /\ (\E q \in T : hist[q].x = "actGrads") <=> ~saveActGrads
               /\ (\E q \in T : hist[q].x = "acts") <=> ~saveActs
               /\ m > 0 =>
                      /\ Len(hist) > u + Cardinality(T)
                      /\ hist[u + Cardinality(T) + 1] =
                             Event("bprop", layers[l].prev[cons[1]], 0, "", EmptyBag)
               /\ layers[l].actGrads.val =
                      (IF saveActGrads THEN hist[f].g ELSE EmptyBag)
               /\ ~saveActs => layers[l].acts.val = 0
               /\ (saveActs /\ Pos(hist, "fpropActs", l) # {}) =>
                      layers[l].acts.val # 0
    /\ \A p \in Layers :
           Cardinality(Pos(hist, "bprop", p)) =
               Cardinality(CallsFromSuccessors(p))
                   + Cardinality({q \in Pos(hist, "driver", p) : hist[q].x = "bprop"})
    /\ \A q \in Pos(hist, "truncate", 0) \cup
                UNION {Pos(hist, "truncate", l) : l \in Layers} :
           \E u \in Pos(hist, "truncBwdActs", hist[q].l) : q \in TruncAfter(u)
    /\ (saveActs /\ saveActGrads) =>
           \A q \in 1..Len(hist) : hist[q].op # "truncate"

\* With _saveActGrads off and _saveActs on, a layer with two
\* gradient-consuming predecessor entries has fired and called backward on
\* its predecessors.
C13_Witness ==
    /\ ~saveActGrads
    /\ saveActs
    /\ \E l \in Layers :
           /\ Len(ConsumingEntries(l)) >= 2
           /\ Pos(hist, "bpropCommon", l) # {}
           /\ Pos(hist, "truncate", l) # {}
           /\ Pos(hist, "bprop", layers[l].prev[ConsumingEntries(l)[1]]) # {}

\* Event q of the history reads, or accumulates into, the buffer that the
\* truncate event t emptied.
UsesTruncated(t, q) ==
    /\ hist[t].op = "truncate"
    /\ q > t
    /\ \/ Buf(hist[t].x, hist[t].l) \in hist[q].r
       \/ /\ hist[t].x = "actGrads"
          /\ hist[q].op = "bpropActs"
          /\ hist[q].x # "none"
          /\ Target(hist[q]) = hist[t].l

(***************************************************************************)
(* C14 as stated.  With both switches off, in a pass of the protocol, no   *)
(* step reads or accumulates into a buffer of any layer (activations,      *)
(* gradients, convolution partial sums, normalization denominators, mean   *)
(* differences) after the buffer was truncated in that pass.               *)
(***************************************************************************)
C14_NoUseAfterTruncation ==
    (~saveActs /\ ~saveActGrads) =>
        \A t, q \in 1..Len(hist) : ~UsesTruncated(t, q)

(***************************************************************************)
(* C15.  Whenever a layer with predecessors runs its forward computation,  *)
(* every input buffer and its own activation buffer carry the layer's      *)
(* transposed flag; whenever a layer runs a backward computation           *)
(* (bpropCommon, bpropActs, bpropWeights), the gradient buffer it is       *)
(* given, every predecessor's activation and gradient buffers and its own  *)
(* activation buffer carry the layer's transposed flag -- also when a      *)
(* buffer is shared by consumers whose flags differ.                       *)
(***************************************************************************)
C15_OrientationAtComputation ==
    \A q \in 1..Len(hist) :
        LET e == hist[q]
        IN  /\ (e.op = "fpropActs" /\ layers[e.l].prev # << >>) =>
                    e.o = {layers[e.l].trans}
            /\ e.op \in {"bpropCommon", "bpropActs", "bpropWeights"} =>
                    e.o = {layers[e.l].trans}

\* Two layers whose flags differ have computed forward from the same
\* predecessor, and one of them has computed a gradient for it.
C15_Witness ==
    \E a, b \in DOMAIN layers :
        /\ layers[a].trans # layers[b].trans
        /\ \E i \in 1..Len(layers[a].prev), j \in 1..Len(layers[b].prev) :
                layers[a].prev[i] = layers[b].prev[j]
        /\ Pos(hist, "fpropActs", a) # {}
        /\ Pos(hist, "fpropActs", b) # {}
        /\ Pos(hist, "bpropActs", a) # {}
        /\ Pos(hist, "bpropWeights", b) # {}

\* The entries of layer l's successor list in table L that produce
\* gradients (a cost layer produces them iff its coefficient is not 0).
ProducingEntries(L, l) ==
    {k \in 1..Len(L[l].next) :
        IF L[L[l].next[k]].type = "cost.logreg"
        THEN L[L[l].next[k]].coeff # 0
        ELSE L[L[l].next[k]].gradProducer}

CountsAgree(L) ==
    \A l \in DOMAIN L :
        L[l].numGradProducersNext = Cardinality(ProducingEntries(L, l))

SameCounts(L1, L2) ==
    \A l \in DOMAIN L1 :
        L1[l].numGradProducersNext = L2[l].numGradProducersNext

(***************************************************************************)
(* C16.  In every state, and after one more addNext or addPrev call on any *)
(* pair of layers, every layer's numGradProducersNext is the number of     *)
(* entries of its successor list that produce gradients; addPrev changes   *)
(* no count; and every step that is not a wiring step (reset of all        *)
(* layers, a forward call, a backward call) leaves every count as it is.   *)
(***************************************************************************)
C16_CountIsProducingSuccessors ==
    /\ [](/\ CountsAgree(layers)
          /\ \A a, b \in Layers :
                /\ CountsAgree(addNext(layers, a, b))
                /\ CountsAgree(addPrev(layers, a, b))
                /\ SameCounts(layers, addPrev(layers, a, b))
                /\ SameCounts(layers, reset(layers, a)))
    /\ [][edges' = edges => SameCounts(layers, layers')]_vars

\* A layer with a producing and a non-producing successor entry has gone
\* through a pass with a backward firing and through the reset after it.
C16_Witness ==
    /\ sweeps >= 2
    /\ \E l \in Layers :
        /\ layers[l].numGradProducersNext > 0
        /\ layers[l].numGradProducersNext < Len(layers[l].next)
        /\ layers[l].rcvdFInputs = 0
        /\ layers[l].rcvdBInputs = 0

\* Layer l after reset(): both counters 0, every other field as before.
AfterReset(layer) == [layer EXCEPT !.rcvdFInputs = 0, !.rcvdBInputs = 0]

(***************************************************************************)
(* C17.  reset() sets the two fan-in counters of its layer to 0 and        *)
(* changes no other field of any layer (edge lists, count of producing     *)
(* successors, capability and orientation flags, buffers); and when a      *)
(* cycle of reset on every layer, forward on every data layer and backward *)
(* on every cost layer follows another such cycle, every layer has run its *)
(* forward and its backward computation as often as in the cycle before.   *)
(***************************************************************************)
C17_ResetFrameAndRepeatableCycles ==
    /\ [](/\ \A l \in Layers :
                reset(layers, l) = [layers EXCEPT ![l] = AfterReset(@)]
          /\ (hist # << >> /\ hist[1].op = "cycle" /\ Complete(hist)) =>
                Firings(hist) = hist[1].g)
    /\ [][sweeps' # sweeps =>
            layers' = [l \in Layers |-> AfterReset(layers[l])]]_vars

\* A second whole cycle in which a layer other than a cost layer has run
\* its backward computation, with buffers and flags left by the first.
C17_Witness ==
    /\ sweeps = 2
    /\ hist # << >>
    /\ hist[1].op = "cycle"
    /\ Complete(hist)
    /\ \E l \in Layers :
        /\ ~IsCost(l)
        /\ hist[1].g[l].b = 1
        /\ Firings(hist)[l].b = 1
        /\ layers[l].acts.val # 0

\* What the forward computation of layer l makes of the batch of the
\* current pass: the data layer holds the driver's matrix, every other layer
\* what its kind computes from its inputs.
RECURSIVE PassActs(_), PassSum(_, _)
PassSum(l, i) ==
    IF i > Len(layers[l].prev)
    THEN 0
    ELSE PassActs(layers[l].prev[i]) + PassSum(l, i + 1)

PassActs(l) ==
    CASE Kind[l] = "data"        -> Batch(sweeps, DataIdx + 1)
      [] Kind[l] = "fc"          -> Act(l, PassSum(l, 1))
      [] Kind[l] = "cost.logreg" ->
            Act(l, PassActs(layers[l].prev[1]) + PassActs(layers[l].prev[2]))
      [] OTHER                   -> Act(l, PassActs(layers[l].prev[1]))

\* The two metrics of a cost layer for labels and probabilities.
Metrics(labels, probs) ==
    << [metric |-> "negLogProb", labels |-> labels, probs |-> probs],
       [metric |-> "numWrong", labels |-> labels, probs |-> probs] >>

(***************************************************************************)
(* C18.  When a logistic-regression cost layer has run its forward         *)
(* computation in a pass, its error metrics are exactly two entries: the   *)
(* summed negative log-likelihood of the true class, then the number of    *)
(* misclassified cases, both of the labels and probabilities of this pass; *)
(* the entries of earlier passes are gone.  getError returns these entries *)
(* in a new vector and leaves every layer as it is.                        *)
(***************************************************************************)
C18_TwoMetricsOfThisPass ==
    \A l \in Layers :
        IsCost(l) =>
            /\ getError(layers, l).L = layers
            /\ getError(layers, l).v = layers[l].err
            /\ Pos(hist, "fpropActs", l) # {} =>
                    layers[l].err =
                        Metrics(PassActs(layers[l].prev[1]),
                                PassActs(layers[l].prev[2]))

\* A cost layer has run its forward computation in a second pass, on
\* another batch than in the first.
C18_Witness ==
    /\ sweeps = 2
    /\ \E l \in Layers :
        /\ IsCost(l)
        /\ Pos(hist, "fpropActs", l) # {}
        /\ Len(getError(layers, l).v) = 2
        /\ getError(layers, l).v[1].metric = "negLogProb"
        /\ getError(layers, l).v[2].metric = "numWrong"
        /\ getError(layers, l).v[2].labels = PassActs(layers[l].prev[1])

(***************************************************************************)
(* The weight-gradient step of the fully-connected layer, on numbers.      *)
(* A matrix with one column is the sequence of its rows (one per case); a  *)
(* weight group is its increment inc (one entry), its momentum mom and its *)
(* learning rate eps.  In SpecWeights the variable layers holds _weights   *)
(* of one layer: one weight group per predecessor.                         *)
(***************************************************************************)
MaxRows == 2

MaxGroups == 2

MaxBprop == 1

PASS_TYPE == {"PASS_TRAIN", "PASS_TEST", "PASS_GC"}

RECURSIVE Factorial(_)
Factorial(n) == IF n <= 1 THEN 1 ELSE n * Factorial(n - 1)

\* Learning rates that every batch size divides, so that eps / numRows is
\* exact.
EpsValues == {0, Factorial(MaxRows), 3 * Factorial(MaxRows)}

MomValues == {0, 2}

IncValues == {0, 1}

Entries == {1, 2}

getNumRows(m) == Len(m)

\* The product of the transpose of a with b, both of one column.
RECURSIVE Product(_, _, _)
Product(a, b, c) ==
    IF c > Len(a) THEN 0 ELSE a[c] * b[c] + Product(a, b, c + 1)

\* this = scaleThis * this + scaleAB * (a * b)
addProduct(this, a, b, scaleThis, scaleAB) ==
    scaleThis * this + scaleAB * Product(a, b, 1)

\* The increment with the momentum kept in a gradient-verification pass.
bpropWeightsInc_MomentumKept(w, prevActs_T, v, passType) ==
    addProduct(w.inc, prevActs_T, v,
               w.mom,
               IF passType = "PASS_GC" THEN 1 ELSE w.eps \div getNumRows(v))

\* _weights[i].getInc().addProduct(prevActs_T, v, (passType != PASS_GC) * mom,
\*                                 passType == PASS_GC ? 1 : eps / v.getNumRows())
bpropWeightsInc(w, prevActs_T, v, passType) ==
    addProduct(w.inc, prevActs_T, v,
               BoolToInt(passType # "PASS_GC") * w.mom,
               IF passType = "PASS_GC" THEN 1 ELSE w.eps \div getNumRows(v))

InitWeights ==
    /\ layers \in [1..MaxGroups -> [inc : IncValues, mom : MomValues, eps : EpsValues]]
    /\ saveActs = TRUE
    /\ saveActGrads = TRUE
    /\ hist = << >>
    /\ pc = "run"
    /\ edges = 0
    /\ calls = 0
    /\ extra = 0
    /\ sweeps = 0

\* FCLayer::bpropWeights(v, passType) with the predecessors' activations
\* prevActs: the loop over the weight groups.  The event keeps the inputs
\* and the weight groups the call found.
BpropWeights(prevActs, v, passType) ==
    /\ pc = "run"
    /\ calls < MaxBprop
    /\ layers' = [i \in DOMAIN layers |->
                    [layers[i] EXCEPT
                        !.inc = bpropWeightsInc(layers[i], prevActs[i], v, passType)]]
    /\ hist' = << Event("bpropWeights", 0, getNumRows(v), passType,
                        [old |-> layers, prevActs |-> prevActs, v |-> v]) >>
    /\ calls' = calls + 1
    /\ UNCHANGED <<saveActs, saveActGrads, pc, edges, extra, sweeps>>

NextWeights ==
    \E n \in 1..MaxRows :
        \E v \in [1..n -> Entries], prevActs \in [1..MaxGroups -> [1..n -> Entries]],
           passType \in PASS_TYPE :
            BpropWeights(prevActs, v, passType)

SpecWeights == InitWeights /\ [][NextWeights]_vars

\* The last call of bpropWeights: its pass type, its batch size, the weight
\* groups it found and the product it formed for group i.
LastPass == hist[Len(hist)].x

LastRows == hist[Len(hist)].i

LastOld(i) == hist[Len(hist)].g.old[i]

LastProduct(i) == Product(hist[Len(hist)].g.prevActs[i], hist[Len(hist)].g.v, 1)

(***************************************************************************)
(* C19 as stated.  After the weight-gradient step the increment of every   *)
(* weight group i is mom_i * (old increment) + (eps_i / batch size) *      *)
(* (prevActs_i transposed times v); in a gradient-verification pass it is  *)
(* the same without the momentum term.                                     *)
(***************************************************************************)
C19_IncrementScaledInEveryPass ==
    hist # << >> =>
        \A i \in DOMAIN layers :
            layers[i].inc =
                (IF LastPass = "PASS_GC" THEN 0 ELSE LastOld(i).mom * LastOld(i).inc)
                    + (LastOld(i).eps \div LastRows) * LastProduct(i)

(***************************************************************************)
(* C19, amended.  In a training or test pass the increment of every weight *)
(* group i becomes mom_i * (old increment) + (eps_i / batch size) *        *)
(* (prevActs_i transposed times v).  In a gradient-verification pass it    *)
(* becomes the product prevActs_i transposed times v alone: the old        *)
(* increment contributes nothing and the product is not scaled by the      *)
(* learning rate or the batch size.  Momentum and learning rate are not    *)
(* changed.                                                                *)
(***************************************************************************)
C19_IncrementUnscaledInVerification ==
    hist # << >> =>
        \A i \in DOMAIN layers :
            /\ layers[i].inc =
                    (IF LastPass = "PASS_GC"
                     THEN LastProduct(i)
                     ELSE LastOld(i).mom * LastOld(i).inc
                            + (LastOld(i).eps \div LastRows) * LastProduct(i))
            /\ layers[i].mom = LastOld(i).mom
            /\ layers[i].eps = LastOld(i).eps

\* A gradient-verification pass over a batch of two cases in which a weight
\* group has an old increment, a momentum and a learning rate for which the
\* three terms differ, and the groups see different activations.
C19_Witness ==
    /\ hist # << >>
    /\ LastPass = "PASS_GC"
    /\ LastRows = 2
    /\ \E i \in DOMAIN layers :
        /\ LastOld(i).inc # 0
        /\ LastOld(i).mom # 0
        /\ LastOld(i).eps \div LastRows # 1
        /\ layers[i].inc = LastProduct(i)
    /\ LastProduct(1) # LastProduct(2)

\* Forward has been called on every data layer in this pass, and backward
\* on no layer yet.
ForwardDone ==
    /\ pc = "run"
    /\ \A d \in Layers : Kind[d] = "data" => Driven(d)
    /\ \A c \in Layers : IsCost(c) => ~Driven(c)

(***************************************************************************)
(* C20.  In a pass (reset on every layer, then forward called once on each *)
(* data layer, in any order) no layer starts its forward computation       *)
(* before every one of its predecessors has finished its own in this pass, *)
(* and no layer computes twice; once forward was called on every data      *)
(* layer, every layer has computed exactly once, and its activations are   *)
(* what its kind makes of the batch of this pass.                          *)
(***************************************************************************)
C20_ForwardOncePerLayerInOrder ==
    \A l \in Layers :
        /\ Cardinality(Pos(hist, "fpropActs", l)) <= 1
        /\ \A q \in Pos(hist, "fpropActs", l) :
                \A i \in 1..Len(layers[l].prev) :
                    \E p \in Pos(hist, "fpropActs", layers[l].prev[i]) : p < q
        /\ ForwardDone =>
                /\ Cardinality(Pos(hist, "fpropActs", l)) = 1
                /\ layers[l].rcvdFInputs = Len(layers[l].prev)
                /\ layers[l].acts.val = PassActs(l)

\* The second pass over a graph with two data layers and a layer that has
\* two predecessors, when forward was called on both data layers.
C20_Witness ==
    /\ ForwardDone
    /\ sweeps = 2
    /\ Cardinality({d \in Layers : Kind[d] = "data"}) = 2
    /\ \A d \in Layers : Kind[d] = "data" => layers[d].next # << >>
    /\ \E l \in Layers :
        /\ ~IsCost(l)
        /\ Cardinality({layers[l].prev[i] : i \in 1..Len(layers[l].prev)}) = 2
        /\ Pos(hist, "fpropActs", l) # {}

\* Layer l is a cost layer with a coefficient other than 0, or one of its
\* successor entries leads to such a layer.
RECURSIVE LeadsToCost(_)
LeadsToCost(l) ==
    \/ IsCost(l) /\ layers[l].coeff # 0
    \/ \E k \in 1..Len(layers[l].next) : LeadsToCost(layers[l].next[k])

(***************************************************************************)
(* C21 as stated.  When forward was called on every data layer and then    *)
(* backward on every cost layer, every gradient-consuming layer from which *)
(* a cost layer with a coefficient other than 0 can be reached has run its *)
(* backward computation in this pass, whatever its other successors lead   *)
(* to.                                                                     *)
(***************************************************************************)
C21_EveryLayerBelowACostFires ==
    (pc = "run" /\ Complete(hist)) =>
        \A l \in Layers :
            (layers[l].gradConsumer /\ LeadsToCost(l)) =>
                Pos(hist, "bpropCommon", l) # {}

====
